---------------------------- MODULE Spec2Model ----------------------------
(***************************************************************************)
(* A model of nearflights.py: FlightTracker.get_nearby_flights (fetch,     *)
(* normalisation, ranking), the renderers build_table /                    *)
(* build_details_panel / display_flights, and the refresh loop and key     *)
(* dispatch of FlightTracker.run, startup prompts included.                *)
(*                                                                         *)
(* Python lists are 0-based; sequences here are 1-based, so the element    *)
(* the code calls flights[i] is flights[i + 1] below.  selected_index      *)
(* keeps the code's 0-based value.                                         *)
(***************************************************************************)
EXTENDS Integers, Sequences, FiniteSets, TLC

VARIABLES
    pc,               \* position in run(): "start", "check", "render", "await",
                      \* "quit", "exited" (exit(1)), "crashed" (uncaught exception);
                      \* "fetch" and "fetched" around a single get_nearby_flights call
    error,            \* the uncaught exception that ended the program, or "none"
    latitude,         \* self.latitude
    longitude,        \* self.longitude
    num_flights,      \* run's local num_flights
    update_interval,  \* self.update_interval
    countAnswer,      \* the text typed at the flight-count prompt
    intervalAnswer,   \* the text typed at the interval prompt
    flights,          \* self.flights
    selected_index,   \* self.selected_index
    show_details,     \* self.show_details
    last_update,      \* run's local last_update
    clock,            \* the value time.time() returns
    key,              \* the last key readchar.readkey() returned, "" before the first
    data,             \* the provider response handed to a single get_nearby_flights call
    layout,           \* what live.update() last put on the screen
    outcome,          \* kind of the provider response of the most recent fetch
    fetchKind,        \* where the most recent fetch was called: "none", "timer", "manual"
    stepFetched,      \* whether the last step called get_nearby_flights
    lastFetchTime,    \* the time the loop recorded for the most recent fetch
    firstIter,        \* TRUE until the first loop iteration has made its check
    everSucceeded,    \* some fetch so far returned through line 89
    lastSuccessAt     \* the time the loop recorded for the last such fetch

vars == <<pc, error, latitude, longitude, num_flights, update_interval, countAnswer,
          intervalAnswer, flights,
          selected_index, show_details, last_update, clock, key, data, layout,
          outcome, fetchKind, stepFetched, lastFetchTime, firstIter, everSucceeded,
          lastSuccessAt>>

(***************************************************************************)
(* Bounds of the model.                                                    *)
(***************************************************************************)
MaxBatch == 3       \* records in a provider batch, single-call specification
MaxLoopBatch == 3   \* records in a provider batch, refresh loop
MaxLat == 1         \* latitudes 0..MaxLat of the aircraft
MaxCount == 3       \* requested counts 0..MaxCount, single-call specification
MaxDigit == 1       \* digits 0..MaxDigit a prompt answer may hold
MaxElapsed == 3     \* seconds of wall-clock time the loop is followed for
MaxWait == 2        \* seconds a blocking key read may take
MaxFetchDelay == 1  \* seconds a provider request may take
MaxTotal == 12      \* flights in a list handed to the renderer alone
StartTime == 100    \* time.time() when the loop is entered

Min(a, b) == IF a < b THEN a ELSE b
Max(a, b) == IF a > b THEN a ELSE b
Abs(a) == IF a < 0 THEN 0 - a ELSE a

(***************************************************************************)
(* Startup: prompts and int().                                             *)
(***************************************************************************)
\* A character that is not a decimal digit (digits are 0..9).
NonDigit == 10

DefaultCount == 10
DefaultInterval == 10

\* The text typed at a prompt: a sequence of characters.
Answers == {<<>>} \cup { <<c>> : c \in (0..MaxDigit) \cup {NonDigit} }

\* x or "10": an empty answer is replaced by the default's text.
OrDefault(s, default) == IF s = <<>> THEN default ELSE s

\* Whether int(s) succeeds; it raises ValueError otherwise.
IsNumeric(s) == Len(s) > 0 /\ \A i \in 1..Len(s) : s[i] \in 0..9

RECURSIVE IntOf(_)
\* int(s) for a numeric s, base 10.
IntOf(s) ==
    IF Len(s) = 0 THEN 0
    ELSE 10 * IntOf(SubSeq(s, 1, Len(s) - 1)) + s[Len(s)]

\* "10", the default's text in both prompts.
TextTen == <<1, 0>>

(***************************************************************************)
(* The provider's answer and get_nearby_flights.                           *)
(***************************************************************************)
\* None in a coordinate field of a raw state record.
Null == -1

\* Raw callsigns: blank, and one padded to the provider's eight characters.
RawCallsigns == {"", "RCH123  "}

\* str.strip() on the raw callsigns above.
Strip(s) == IF s = "RCH123  " THEN "RCH123" ELSE s

\* A raw state record, as far as the code reads it here: state[1] callsign,
\* state[5] longitude, state[6] latitude.  Aircraft with a position are on the
\* meridian of the reference point.  The fields the code reads without a guard
\* (state[3], and the record having thirteen positions) are taken as present.
StateRecord(cs, lon, lat) == (1 :> cs) @@ (5 :> lon) @@ (6 :> lat)

Positions == {<<Null, Null>>, <<Null, 0>>, <<0, Null>>} \cup { <<0, la>> : la \in 0..MaxLat }

Records == { StateRecord(cs, p[1], p[2]) : cs \in RawCallsigns, p \in Positions }

\* Records of the batches the refresh loop is fed: one complete, one without longitude.
LoopRecords == { StateRecord("RCH123  ", lon, 0) : lon \in {Null, 0} }

SeqsUpTo(S, n) == UNION { [1..k -> S] : k \in 0..n }

\* What one request to the provider can come to.
\*   ConnectionError  requests.get raises a RequestException
\*   HTTPError        raise_for_status raises
\*   InvalidJSON      response.json() raises requests' JSONDecodeError, a RequestException
\*   EmptyObject      the body is {} (falsy)
\*   NoStatesKey      the body is an object without "states"
\*   StatesNull       the body is {"time": t, "states": null}
\*   States           the body holds a list of raw state records
Response(kind, states) == [kind |-> kind, states |-> states]

FailureKinds == {"ConnectionError", "HTTPError", "InvalidJSON", "EmptyObject",
                 "NoStatesKey", "StatesNull"}

Batches == SeqsUpTo(Records, MaxBatch)

LoopResponses ==
    { Response(k, <<>>) : k \in FailureKinds }
        \cup { Response("States", b) : b \in SeqsUpTo(LoopRecords, MaxLoopBatch) }

\* Haversine distance for two points on one meridian (dlon = 0): a = sin(dlat/2)^2,
\* c = |dlat|, distance = R * c.  The unit here is R * pi / 180 km, one degree of arc.
calculate_distance(lat1, lon1, lat2, lon2) == Abs(lat2 - lat1)

\* The skip test with the latitude test left out.
MissingCoordinates_LongitudeOnly(state) == state[5] = Null

\* The skip test of line 62.
MissingCoordinates(state) == state[5] = Null \/ state[6] = Null

\* Lines 64-85: the flight dict, with the fields the table and the ranking read.
Normalize(state, lat, lon) ==
    [callsign |-> IF state[1] # "" THEN Strip(state[1]) ELSE "UNKNOWN",
     distance |-> calculate_distance(lat, lon, state[6], state[5])]

RECURSIVE NormalizeAll(_, _, _)
\* The for loop of lines 60-85.
NormalizeAll(states, lat, lon) ==
    IF states = <<>> THEN <<>>
    ELSE LET rest == NormalizeAll(SubSeq(states, 1, Len(states) - 1), lat, lon)
             state == states[Len(states)]
         IN IF MissingCoordinates(state) THEN rest
            ELSE Append(rest, Normalize(state, lat, lon))

\* An insertion that puts f before the flights at the same distance.
InsertByDistance_BeforeEqual(sorted, f) ==
    LET k == Cardinality({ i \in 1..Len(sorted) : sorted[i].distance < f.distance })
    IN SubSeq(sorted, 1, k) \o <<f>> \o SubSeq(sorted, k + 1, Len(sorted))

\* One insertion of a stable sort: f goes behind every flight that is not farther.
InsertByDistance(sorted, f) ==
    LET k == Cardinality({ i \in 1..Len(sorted) : sorted[i].distance <= f.distance })
    IN SubSeq(sorted, 1, k) \o <<f>> \o SubSeq(sorted, k + 1, Len(sorted))

RECURSIVE SortByDistance(_)
\* flights.sort(key=lambda x: x['distance']): list.sort is stable.
SortByDistance(fs) ==
    IF fs = <<>> THEN <<>>
    ELSE InsertByDistance(SortByDistance(SubSeq(fs, 1, Len(fs) - 1)), fs[Len(fs)])

\* fs[:n], a negative n counting from the end.
Slice(fs, n) ==
    IF n >= 0 THEN SubSeq(fs, 1, Min(n, Len(fs)))
    ELSE SubSeq(fs, 1, Max(0, Len(fs) + n))

\* Lines 87-89.
Rank(fs, n) == Slice(SortByDistance(fs), n)

\* get_nearby_flights: the exception that leaves it ("none" when it returns) and
\* the list it returns.
get_nearby_flights(resp, lat, lon, n) ==
    CASE resp.kind \in {"ConnectionError", "HTTPError", "InvalidJSON"} ->
            [raised |-> "none", result |-> <<>>]
      [] resp.kind \in {"EmptyObject", "NoStatesKey"} ->
            [raised |-> "none", result |-> <<>>]
      [] resp.kind = "StatesNull" ->
            [raised |-> "TypeError", result |-> <<>>]
      [] OTHER ->
            [raised |-> "none", result |-> Rank(NormalizeAll(resp.states, lat, lon), n)]

(***************************************************************************)
(* The renderers.                                                          *)
(***************************************************************************)
PageSize == 10

\* build_table: one row per flight of the whole list, the row at selected_index
\* styled "on blue".  A row is given by the 0-based index of its flight.
build_table(fs, sel) ==
    [i \in 1..Len(fs) |->
        [index |-> i - 1, style |-> IF i - 1 = sel THEN "on blue" ELSE ""]]

\* Whether build_details_panel raises IndexError at self.flights[self.selected_index].
DetailsRaises(fs, sel) == fs # <<>> /\ sel >= Len(fs)

\* build_details_panel: the placeholder for an empty list (shown as Null), else the
\* index of the flight whose details are shown.
build_details_panel(fs, sel) == IF fs = <<>> THEN Null ELSE sel

\* The Layout of lines 245-249: the table above the details panel, and nothing else.
Layout(fs, sel) ==
    [table |-> build_table(fs, sel),
     details |-> build_details_panel(fs, sel),
     footer |-> <<>>]

\* display_flights, for a non-empty list: the rows of the page that holds
\* selected_index and the "Page X of Y" line.  run() never calls it.
display_flights(fs, sel) ==
    LET total_pages == (Len(fs) + PageSize - 1) \div PageSize
        current_page == sel \div PageSize
        start_idx == current_page * PageSize
        end_idx == Min(start_idx + PageSize, Len(fs))
    IN [table |-> [j \in 1..(end_idx - start_idx) |->
                      [index |-> start_idx + j - 1,
                       style |-> IF start_idx + j - 1 = sel THEN "bold green" ELSE ""]],
        details |-> IF sel < Len(fs) THEN sel ELSE Null,
        footer |-> <<current_page + 1, total_pages>>]

NoLayout == [table |-> <<>>, details |-> Null, footer |-> <<>>]

(***************************************************************************)
(* run(): startup.                                                         *)
(***************************************************************************)
\* The reference point the geocoder resolves the address to.
Location == [latitude |-> 0, longitude |-> 0]

NoResponse == Response("none", <<>>)

Init ==
    /\ pc = "start"
    /\ error = "none"
    /\ latitude = 0
    /\ longitude = 0
    /\ num_flights = 0
    /\ update_interval = DefaultInterval
    /\ countAnswer = <<>>
    /\ intervalAnswer = <<>>
    /\ flights = <<>>
    /\ selected_index = 0
    /\ show_details = TRUE
    /\ last_update = 0
    /\ clock = StartTime
    /\ key = ""
    /\ data = NoResponse
    /\ layout = NoLayout
    /\ outcome = "none"
    /\ fetchKind = "none"
    /\ stepFetched = FALSE
    /\ lastFetchTime = 0
    /\ firstIter = TRUE
    /\ everSucceeded = FALSE
    /\ lastSuccessAt = 0

loopVars == <<flights, selected_index, show_details, last_update, clock, key, data,
              layout, outcome, fetchKind, stepFetched, lastFetchTime, firstIter,
              everSucceeded, lastSuccessAt>>

\* get_coordinates finds no location, or the geocoder times out: exit(1).
GeocodeFails ==
    /\ pc = "start"
    /\ pc' = "exited"
    /\ error' = "SystemExit"
    /\ UNCHANGED <<latitude, longitude, num_flights, update_interval, countAnswer,
                   intervalAnswer>>
    /\ UNCHANGED loopVars

\* Lines 229-234 with the address resolved: the two prompts, each through
\* int(answer or "10"), which raises ValueError on a non-numeric answer.
Prompts ==
    /\ pc = "start"
    /\ latitude' = Location.latitude
    /\ longitude' = Location.longitude
    /\ \E count \in Answers, interval \in Answers :
          /\ countAnswer' = count
          /\ IF ~IsNumeric(OrDefault(count, TextTen))
             THEN /\ pc' = "crashed"
                  /\ error' = "ValueError"
                  /\ UNCHANGED <<num_flights, update_interval, intervalAnswer>>
             ELSE /\ num_flights' = IntOf(OrDefault(count, TextTen))
                  /\ intervalAnswer' = interval
                  /\ IF ~IsNumeric(OrDefault(interval, TextTen))
                     THEN /\ pc' = "crashed"
                          /\ error' = "ValueError"
                          /\ UNCHANGED update_interval
                     ELSE /\ update_interval' = IntOf(OrDefault(interval, TextTen))
                          /\ pc' = "check"
                          /\ error' = "none"
    /\ UNCHANGED loopVars

(***************************************************************************)
(* run(): the refresh loop.                                                *)
(***************************************************************************)
MaxClock == StartTime + MaxElapsed

\* The condition without its test for an empty list.
NeedsRefresh_TimerOnly(t, last, interval, fs) == t - last > interval

\* The condition of line 240.
NeedsRefresh(t, last, interval, fs) == t - last > interval \/ fs = <<>>

\* Lines 242-243.
Clamp(sel, fs) == IF sel >= Len(fs) THEN Max(0, Len(fs) - 1) ELSE sel

\* What every call of get_nearby_flights leaves in the history variables; t is the
\* time the loop records for the fetch.
Fetched(resp, kind, t) ==
    /\ outcome' = resp.kind
    /\ fetchKind' = kind
    /\ stepFetched' = TRUE
    /\ lastFetchTime' = t
    /\ everSucceeded' = (everSucceeded \/ resp.kind = "States")
    /\ lastSuccessAt' = IF resp.kind = "States" THEN t ELSE lastSuccessAt

\* Lines 239-244: now = time.time(), the check, and the fetch with its clamp.
RefreshCheck ==
    /\ pc = "check"
    /\ firstIter' = FALSE
    /\ IF NeedsRefresh(clock, last_update, update_interval, flights)
       THEN \E resp \in LoopResponses, d \in 0..MaxFetchDelay :
              LET r == get_nearby_flights(resp, latitude, longitude, num_flights)
              IN /\ clock + d <= MaxClock
                 /\ clock' = clock + d
                 /\ Fetched(resp, "timer", clock)
                 /\ IF r.raised # "none"
                    THEN /\ pc' = "crashed"
                         /\ error' = r.raised
                         /\ UNCHANGED <<flights, selected_index, last_update>>
                    ELSE /\ flights' = r.result
                         /\ selected_index' = Clamp(selected_index, r.result)
                         /\ last_update' = clock
                         /\ pc' = "render"
                         /\ UNCHANGED error
       ELSE /\ pc' = "render"
            /\ stepFetched' = FALSE
            /\ UNCHANGED <<error, flights, selected_index, last_update, clock, outcome,
                           fetchKind, lastFetchTime, everSucceeded, lastSuccessAt>>
    /\ UNCHANGED <<latitude, longitude, num_flights, update_interval, countAnswer,
                   intervalAnswer, show_details,
                   key, data, layout>>

\* Lines 245-250: build the table and the details panel and show them.
Render ==
    /\ pc = "render"
    /\ IF DetailsRaises(flights, selected_index)
       THEN /\ pc' = "crashed"
            /\ error' = "IndexError"
            /\ UNCHANGED layout
       ELSE /\ pc' = "await"
            /\ layout' = Layout(flights, selected_index)
            /\ UNCHANGED error
    /\ stepFetched' = FALSE
    /\ UNCHANGED <<latitude, longitude, num_flights, update_interval, countAnswer,
                   intervalAnswer, flights,
                   selected_index, show_details, last_update, clock, key, data, outcome,
                   fetchKind, lastFetchTime, firstIter, everSucceeded, lastSuccessAt>>

\* readchar.readkey() returns k at time t, after blocking for up to MaxWait seconds.
ReadsKey(k, t) ==
    /\ pc = "await"
    /\ t \in clock..Min(clock + MaxWait, MaxClock)
    /\ key' = k
    /\ UNCHANGED <<latitude, longitude, num_flights, update_interval, countAnswer,
                   intervalAnswer, data, layout,
                   firstIter>>

NoFetch ==
    /\ stepFetched' = FALSE
    /\ UNCHANGED <<outcome, fetchKind, lastFetchTime, everSucceeded, lastSuccessAt>>

WakeTimes == StartTime..MaxClock

\* Lines 254-255.
KeyUp ==
    \E t \in WakeTimes :
        /\ flights # <<>>
        /\ ReadsKey("UP", t)
        /\ selected_index' = Max(0, selected_index - 1)
        /\ clock' = t
        /\ pc' = "check"
        /\ NoFetch
        /\ UNCHANGED <<error, flights, show_details, last_update>>

\* Lines 256-257.
KeyDown ==
    \E t \in WakeTimes :
        /\ flights # <<>>
        /\ ReadsKey("DOWN", t)
        /\ selected_index' = Min(Len(flights) - 1, selected_index + 1)
        /\ clock' = t
        /\ pc' = "check"
        /\ NoFetch
        /\ UNCHANGED <<error, flights, show_details, last_update>>

\* Lines 258-259 and 267-268: break.
KeyQuit ==
    \E t \in WakeTimes :
        /\ ReadsKey("q", t)
        /\ clock' = t
        /\ pc' = "quit"
        /\ NoFetch
        /\ UNCHANGED <<error, flights, selected_index, show_details, last_update>>

\* The 'r' branch without its last_update = time.time().
KeyRefresh_KeepsBaseline ==
    \E t \in WakeTimes, resp \in LoopResponses, d \in 0..MaxFetchDelay :
        LET r == get_nearby_flights(resp, latitude, longitude, num_flights)
        IN /\ flights # <<>>
           /\ ReadsKey("r", t)
           /\ t + d <= MaxClock
           /\ clock' = t + d
           /\ Fetched(resp, "manual", t + d)
           /\ IF r.raised # "none"
              THEN /\ pc' = "crashed"
                   /\ error' = r.raised
                   /\ UNCHANGED flights
              ELSE /\ flights' = r.result
                   /\ pc' = "check"
                   /\ UNCHANGED error
           /\ UNCHANGED <<selected_index, show_details, last_update>>

\* Lines 260-262: the fetch, then last_update = time.time().
KeyRefresh ==
    \E t \in WakeTimes, resp \in LoopResponses, d \in 0..MaxFetchDelay :
        LET r == get_nearby_flights(resp, latitude, longitude, num_flights)
        IN /\ flights # <<>>
           /\ ReadsKey("r", t)
           /\ t + d <= MaxClock
           /\ clock' = t + d
           /\ Fetched(resp, "manual", t + d)
           /\ IF r.raised # "none"
              THEN /\ pc' = "crashed"
                   /\ error' = r.raised
                   /\ UNCHANGED <<flights, last_update>>
              ELSE /\ flights' = r.result
                   /\ last_update' = t + d
                   /\ pc' = "check"
                   /\ UNCHANGED error
           /\ UNCHANGED <<selected_index, show_details>>

\* Lines 263-264.
KeyToggleDetails ==
    \E t \in WakeTimes :
        /\ flights # <<>>
        /\ ReadsKey("d", t)
        /\ show_details' = ~show_details
        /\ clock' = t
        /\ pc' = "check"
        /\ NoFetch
        /\ UNCHANGED <<error, flights, selected_index, last_update>>

\* Keys that no branch of the dispatch names; with an empty list (lines 265-268)
\* that is every key but q.
Keys == {"UP", "DOWN", "q", "r", "d", "x"}

Unhandled(k) == IF flights # <<>> THEN k = "x" ELSE k # "q"

KeyOther ==
    \E t \in WakeTimes, k \in Keys :
        /\ Unhandled(k)
        /\ ReadsKey(k, t)
        /\ clock' = t
        /\ pc' = "check"
        /\ NoFetch
        /\ UNCHANGED <<error, flights, selected_index, show_details, last_update>>

Next ==
    \/ GeocodeFails
    \/ Prompts
    \/ RefreshCheck
    \/ Render
    \/ KeyUp
    \/ KeyDown
    \/ KeyQuit
    \/ KeyRefresh
    \/ KeyToggleDetails
    \/ KeyOther

Spec == Init /\ [][Next]_vars

(***************************************************************************)
(* One call of get_nearby_flights on a provider batch.                     *)
(***************************************************************************)
InitFetch ==
    /\ pc = "fetch"
    /\ error = "none"
    /\ latitude = Location.latitude
    /\ longitude = Location.longitude
    /\ num_flights \in 0..MaxCount
    /\ update_interval = DefaultInterval
    /\ countAnswer = <<>>
    /\ intervalAnswer = <<>>
    /\ flights = <<>>
    /\ selected_index = 0
    /\ show_details = TRUE
    /\ last_update = 0
    /\ clock = StartTime
    /\ key = ""
    /\ data \in { Response("States", b) : b \in Batches }
    /\ layout = NoLayout
    /\ outcome = "none"
    /\ fetchKind = "none"
    /\ stepFetched = FALSE
    /\ lastFetchTime = 0
    /\ firstIter = TRUE
    /\ everSucceeded = FALSE
    /\ lastSuccessAt = 0

\* self.flights = self.get_nearby_flights(self.latitude, self.longitude, num_flights)
FetchOnce ==
    /\ pc = "fetch"
    /\ LET r == get_nearby_flights(data, latitude, longitude, num_flights)
       IN /\ flights' = r.result
          /\ error' = r.raised
          /\ pc' = IF r.raised = "none" THEN "fetched" ELSE "crashed"
    /\ outcome' = data.kind
    /\ stepFetched' = TRUE
    /\ UNCHANGED <<latitude, longitude, num_flights, update_interval, countAnswer,
                   intervalAnswer, selected_index, show_details, last_update, clock,
                   key, data, layout, fetchKind, lastFetchTime, firstIter,
                   everSucceeded, lastSuccessAt>>

SpecFetch == InitFetch /\ [][FetchOnce]_vars

(***************************************************************************)
(* One rendering of a ranked list with a valid selection.                  *)
(***************************************************************************)
RankedList(n) == [i \in 1..n |-> [callsign |-> "RCH123", distance |-> i]]

InitRender ==
    /\ pc = "render"
    /\ error = "none"
    /\ latitude = Location.latitude
    /\ longitude = Location.longitude
    /\ num_flights = MaxTotal
    /\ update_interval = DefaultInterval
    /\ countAnswer = <<>>
    /\ intervalAnswer = <<>>
    /\ \E n \in 1..MaxTotal :
          /\ flights = RankedList(n)
          /\ selected_index \in 0..(n - 1)
    /\ show_details = TRUE
    /\ last_update = StartTime
    /\ clock = StartTime
    /\ key = ""
    /\ data = NoResponse
    /\ layout = NoLayout
    /\ outcome = "States"
    /\ fetchKind = "timer"
    /\ stepFetched = TRUE
    /\ lastFetchTime = StartTime
    /\ firstIter = FALSE
    /\ everSucceeded = TRUE
    /\ lastSuccessAt = StartTime

SpecRender == InitRender /\ [][Render]_vars

(***************************************************************************)
(* Properties.                                                             *)
(***************************************************************************)
LoopPcs == {"check", "render", "await"}

\* A step in which readkey() returned: key' is the key read.
KeyRead == pc = "await" /\ pc' # "await"

\* C1: whenever a non-empty flight list is about to be rendered, the selection
\* index satisfies 0 <= index < len(list).
C1_SelectionInBounds ==
    (pc = "render" /\ flights # <<>>)
        => (0 <= selected_index /\ selected_index < Len(flights))

\* C2: a fetch that fails (network error, HTTP error status, malformed or missing
\* JSON body) is never fatal: it yields the empty list and the loop goes on.
C2_FetchFailureNotFatal ==
    (stepFetched /\ outcome \in FailureKinds)
        => (pc \in LoopPcs /\ error = "none" /\ flights = <<>>)

\* C3 as stated: reading 'r' with a non-empty list fetches at once, replaces the list
\* and resets the baseline to the time of that fetch, and the next fetch at the top
\* of the loop comes no earlier than one interval after it.
C3_ManualRefreshResetsTimer ==
    [][ /\ (KeyRead /\ flights # <<>> /\ key' = "r")
            => /\ stepFetched' /\ fetchKind' = "manual"
               /\ pc' = "check" =>
                    /\ last_update' = clock'
                    /\ Len(flights') <= num_flights
                    /\ outcome' \in FailureKinds => flights' = <<>>
        /\ (pc = "check" /\ fetchKind = "manual" /\ stepFetched')
            => clock - lastFetchTime >= update_interval
      ]_vars

\* C3 amended: the same, the last part only when the 'r' fetch returned at least
\* one flight; after an 'r' fetch that returned none the next iteration fetches at once.
C3_ManualRefreshResetsTimerIfNonEmpty ==
    [][ /\ (KeyRead /\ flights # <<>> /\ key' = "r")
            => /\ stepFetched' /\ fetchKind' = "manual"
               /\ pc' = "check" =>
                    /\ last_update' = clock'
                    /\ Len(flights') <= num_flights
                    /\ outcome' \in FailureKinds => flights' = <<>>
        /\ (pc = "check" /\ fetchKind = "manual" /\ stepFetched' /\ flights # <<>>)
            => clock - lastFetchTime >= update_interval
        /\ (pc = "check" /\ fetchKind = "manual" /\ flights = <<>>) => stepFetched'
      ]_vars

\* C3 witness: 'r' was read under the default interval, which cannot have elapsed,
\* the fetch was made and returned flights, and the baseline is the present time.
C3_Witness ==
    /\ pc = "check" /\ key = "r" /\ stepFetched /\ fetchKind = "manual"
    /\ update_interval = DefaultInterval
    /\ flights # <<>>
    /\ last_update = clock
    /\ clock > StartTime

\* C4: the loop ends only by reading 'q'; 'q' moves to Quit without another fetch;
\* a key other than Up, Down, 'r', 'q' changes neither the list nor the selection
\* nor the baseline, and the loop continues.
C4_OnlyQuitEndsLoop ==
    [][ /\ (pc \in LoopPcs /\ pc' \notin LoopPcs)
            => (pc = "await" /\ key' = "q" /\ pc' = "quit")
        /\ (KeyRead /\ key' = "q")
            => (pc' = "quit" /\ ~stepFetched' /\ flights' = flights)
        /\ (KeyRead /\ key' \notin {"UP", "DOWN", "r", "q"})
            => /\ pc' = "check" /\ ~stepFetched'
               /\ flights' = flights
               /\ selected_index' = selected_index
               /\ last_update' = last_update
      ]_vars

\* The dispatch half of C4 alone: what 'q' and the unnamed keys do.
KeyDispatchOfQuitAndOtherKeys ==
    [][ /\ (KeyRead /\ key' = "q")
            => (pc' = "quit" /\ ~stepFetched' /\ flights' = flights)
        /\ (KeyRead /\ key' \notin {"UP", "DOWN", "r", "q"})
            => /\ pc' = "check" /\ ~stepFetched'
               /\ flights' = flights
               /\ selected_index' = selected_index
               /\ last_update' = last_update
        /\ pc' = "quit" => (pc = "await" /\ key' = "q")
      ]_vars

\* C5 as stated: the top of an iteration fetches exactly when it is the first
\* iteration, or the time since the last successful fetch exceeds the interval, or
\* no fetch has ever succeeded; otherwise the list is left as it was; the check is
\* made once between two key reads.
C5_TimerFetchCondition ==
    [][ /\ pc = "check"
            => /\ stepFetched' <=> \/ firstIter
                                   \/ clock - lastSuccessAt > update_interval
                                   \/ ~everSucceeded
               /\ ~stepFetched' => flights' = flights
        /\ pc' = "check" => pc \in {"start", "await"}
      ]_vars

\* C5 amended: "no fetch has ever succeeded" becomes "the flight list is empty",
\* which is so in the first iteration and after every fetch that failed or
\* returned no flights.
C5_TimerFetchConditionEmptyList ==
    [][ /\ pc = "check"
            => /\ stepFetched' <=> \/ firstIter
                                   \/ clock - lastSuccessAt > update_interval
                                   \/ flights = <<>>
               /\ firstIter => stepFetched'
               /\ ~stepFetched' => flights' = flights
        /\ pc' = "check" => pc \in {"start", "await"}
      ]_vars

\* C5 witness: the top of a later iteration has fetched, and the fetch failed,
\* although a fetch had succeeded less than one interval before.
C5_Witness ==
    /\ pc = "render" /\ stepFetched /\ fetchKind = "timer"
    /\ outcome \in FailureKinds
    /\ everSucceeded
    /\ clock - lastSuccessAt <= update_interval

\* The place of all[q] in the stable ascending order of all by distance.
StablePlace(all, q) ==
    1 + Cardinality({ o \in 1..Len(all) :
                        \/ all[o].distance < all[q].distance
                        \/ (all[o].distance = all[q].distance /\ o < q) })

\* The normalized flights of the batch handed to the single call.
Normalized == NormalizeAll(data.states, latitude, longitude)

\* C6: the ranked result is the first min(N, len) flights of the stable ascending
\* order by distance, and ranking it again with the same N returns it.
C6_RankIsStablePrefix ==
    pc = "fetched" =>
        /\ Len(flights) = Min(num_flights, Len(Normalized))
        /\ \A i, j \in 1..Len(flights) :
              i < j => flights[i].distance <= flights[j].distance
        /\ \A q \in 1..Len(Normalized) :
              StablePlace(Normalized, q) <= Len(flights)
                  => flights[StablePlace(Normalized, q)] = Normalized[q]
        /\ Rank(flights, num_flights) = flights

\* C6 witness: a batch not in order, with two different flights at one distance,
\* and more flights than requested.
C6_Witness ==
    /\ pc = "fetched"
    /\ Len(Normalized) > num_flights
    /\ Len(flights) >= 2
    /\ flights[1].distance = flights[2].distance
    /\ flights[1].callsign # flights[2].callsign
    /\ \E i \in 1..2 : Normalized[i].distance > flights[1].distance

\* The records of the batch that carry both coordinates.
Complete == { i \in 1..Len(data.states) :
                data.states[i][5] # Null /\ data.states[i][6] # Null }

\* How often flight f occurs in fs.
Count(fs, f) == Cardinality({ i \in 1..Len(fs) : fs[i] = f })

\* The flight a complete record stands for: its callsign tidied, its distance.
FlightOf(state) ==
    [callsign |-> IF state[1] = "" THEN "UNKNOWN" ELSE Strip(state[1]),
     distance |-> Abs(state[6] - latitude)]

C8_TableShowsPageOfSelection ==
    (pc = "await" /\ flights # <<>>) =>
        LET total == Len(flights)
            page == selected_index \div PageSize
            first == page * PageSize
            last == Min(first + PageSize, total) - 1
            rows == { layout.table[i].index : i \in 1..Len(layout.table) }
        IN /\ rows = first..last
           /\ Len(layout.table) = last - first + 1
           /\ Len(layout.table) <= PageSize
           /\ selected_index \in rows
           /\ \A i \in 1..Len(layout.table) :
                 layout.table[i].style # "" <=> layout.table[i].index = selected_index
           /\ layout.footer = <<page + 1, (total + PageSize - 1) \div PageSize>>

\* A step that replaced the flight list by a fetch made at the top of the loop or
\* on 'r'.
Refreshed == pc \in {"check", "await"} /\ stepFetched' /\ pc' \in LoopPcs

\* C9: a refresh that leaves a non-empty list of length n leaves the selection at
\* min(previous index, n - 1).
C9_SelectionKeptAcrossRefresh ==
    [][ (Refreshed /\ flights' # <<>>)
            => selected_index' = Min(selected_index, Len(flights') - 1)
      ]_vars

\* C10: with the address resolved, a non-numeric answer to either prompt does not
\* stop the program: the value is the default, as for an empty answer, and the loop
\* is entered.
C10_MalformedAnswerFallsBack ==
    pc \notin {"start", "exited"} =>
        /\ error # "ValueError"
        /\ ~IsNumeric(countAnswer) => num_flights = DefaultCount
        /\ ~IsNumeric(intervalAnswer) => update_interval = DefaultInterval

====
